---- MODULE Spec2Model ----
(***************************************************************************)
(* Hazard detection and alerting of the AURA rover dashboard.              *)
(*                                                                         *)
(* One browser tab shows one page at a time.  Every page renders Navbar,   *)
(* which mounts its own GlobalAlertBar; the Analytics and Manual pages     *)
(* additionally run their own status poller with per-channel edge          *)
(* trackers.  The rover is the environment: its telemetry changes freely   *)
(* and a status poll that succeeds reads the telemetry current when its     *)
(* response is processed.                                                  *)
(***************************************************************************)
EXTENDS Integers, Sequences, FiniteSets, TLC

VARIABLES
    rover,                    \* telemetry the rover currently reports on GET /status
    page,                     \* the page whose component tree is the current one
    mounted,                  \* TRUE while that tree is mounted
    alert,                    \* GlobalAlertBar: useState(null)
    visible,                  \* GlobalAlertBar: useState(false)
    acknowledgedRef,          \* GlobalAlertBar: useRef(false)
    lastHazardRef,            \* GlobalAlertBar: useRef(false)
    gabPending,               \* GlobalAlertBar: status fetches issued and not yet settled
    lastFlameRef,             \* Analytics / Manual: useRef(false)
    lastGasHighRef,           \* Analytics / Manual: useRef(false)
    lastEdgeRef,              \* Analytics: useRef(false)
    lastDistanceCriticalRef,  \* Analytics: useRef(false)
    pagePending,              \* Analytics / Manual: status fetches issued and not yet settled
    audioCtxRef,              \* GlobalAlertBar: the state attribute of audioCtxRef.current
    ctxPending,               \* its suspend() / resume() request not yet carried out
    oscillatorRef,            \* GlobalAlertBar: oscillatorRef.current is set
    gainRef,                  \* GlobalAlertBar: gainRef.current is set
    live,                     \* browser: oscillators started and not stopped
    wired,                    \* browser: gain nodes connected to a destination
    permission,               \* browser: Notification.permission
    env,                      \* browser: which APIs exist and how they answer
    buzzerOff,                \* handleOff: its awaited fetch of /buzzer/off
    calls,                    \* history: browser API calls made by that operation
    act,                      \* history: the operation that produced this state
    fx,                       \* history: side effects requested by that operation
    prev,                     \* history: channel activity at the previously processed poll
    seen,                     \* history: rising-edge decisions of a scripted feed
    episode,                  \* history: POSTs per hazard episode of the rover
    flight,                   \* browser: GlobalAlertBar's status fetches in flight, in issue order
    camera                    \* the live camera feed of Manual / Patrol and its requests in flight

gab      == <<alert, visible, acknowledgedRef, lastHazardRef>>
trackers == <<lastFlameRef, lastGasHighRef, lastEdgeRef, lastDistanceCriticalRef>>
audio    == <<audioCtxRef, ctxPending, oscillatorRef, gainRef, live, wired>>
vars     == <<rover, page, mounted, alert, visible, acknowledgedRef, lastHazardRef,
              gabPending, lastFlameRef, lastGasHighRef, lastEdgeRef,
              lastDistanceCriticalRef, pagePending, audioCtxRef, ctxPending,
              oscillatorRef, gainRef, live, wired, permission, env, buzzerOff,
              calls, act, fx, prev, seen, episode, flight, camera>>

----------------------------------------------------------------------------
(* Bounds and program constants *)

MaxInFlight == 2

\* Page mounts followed in a camera session
MaxMounts == 2

EpisodeCap == 2

GAS_THRESHOLD == 1500

DistCriticalCm == 15

NoGas == -1

NoDist == -1

GasVals == {NoGas, 1000, 1500, 1600}

DistVals == {NoDist, 10, 15}

RoverStates == {"", "MOVING"}

Snapshots == [flame : BOOLEAN, gas : GasVals, state : RoverStates]

Pages == {"dashboard", "analytics", "manual"}

Channels == {"fire", "gas"}

Notified(fxs) == \E f \in fxs : f.op = "notify"

Posted(fxs, op, ch) == \E f \in fxs : f.op = op /\ f.ch = ch

\* Side effects are recorded as requests: what is asked of the browser or of a
\* server, whatever the outcome of the request is.
Fx(op, ch, reading) == [op |-> op, ch |-> ch, reading |-> reading]

\* alert === null
Null == [type |-> "null", message |-> [text |-> "", reading |-> NoGas], state |-> ""]

NoEpisode == [open |-> FALSE, seen |-> FALSE, polled |-> FALSE, log |-> 0, alert |-> 0]

NoPrev == [hazard |-> FALSE, fire |-> FALSE, gas |-> FALSE, acked |-> FALSE]

\* A field of a status response as the JSON carries it: left out, null, or a
\* value.  Numbers keep their value in n (0 where there is none).
RawFlames == {"absent", "null", "true", "false"}

RawNumber(kind, n) == [kind |-> kind, n |-> n]

RawGases == {RawNumber("absent", 0), RawNumber("null", 0),
             RawNumber("num", 1000), RawNumber("num", 1600)}

RawStates == {"absent", "MOVING"}

RawDistances == {RawNumber("absent", 0), RawNumber("num", 40)}

Payloads == [flame : RawFlames, gas : RawGases, state : RawStates, distance : RawDistances]

\* The response {}
EmptyPayload ==
    [flame |-> "absent", gas |-> RawNumber("absent", 0), state |-> "absent",
     distance |-> RawNumber("absent", 0)]

NoSeen == [ch |-> "none", gab |-> << >>, page |-> << >>, raw |-> EmptyPayload]

\* typeof Notification === "undefined" / the constructor works / it throws
NotificationApis == {"missing", "ok", "ctorThrows"}

Permissions == {"default", "granted", "denied"}

\* How Notification.requestPermission() settles
Answers == {"granted", "denied", "dismissed", "throws"}

\* new AudioContext(): throws (or no such constructor), or the state of the
\* context it returns (suspended until a user gesture under autoplay policy)
AudioApis == {"missing", "suspended", "running"}

Browsers == [notification : NotificationApis, vibrate : BOOLEAN, audio : AudioApis]

\* The steps of an operation that touches neither the browser APIs nor
\* handleOff's request
NoCalls ==
    /\ calls' = {}
    /\ UNCHANGED <<audioCtxRef, ctxPending, oscillatorRef, gainRef, live, wired>>
    /\ UNCHANGED <<permission, env, buzzerOff>>

----------------------------------------------------------------------------
(* Hazard evaluation: the expressions the pollers compute from a snapshot *)

\* !!data?.flame with a flame field that is anything but false
FlameOf_AbsentIsFire(raw) == raw.flame # "false"

\* !!data?.flame on the response: a field left out or null is falsy
FlameOf(raw) == raw.flame = "true"

\* data?.gas, with undefined and null (both == null) read as no reading
GasOf(raw) == IF raw.gas.kind = "num" THEN raw.gas.n ELSE NoGas

\* data?.state || ""
StateOf(raw) == IF raw.state = "absent" THEN "" ELSE raw.state

\* typeof data?.distance === "number" ? data.distance : null
DistanceOf(raw) == IF raw.distance.kind = "num" THEN raw.distance.n ELSE NoDist

\* What the callbacks read from a response
Parsed(raw) == [flame |-> FlameOf(raw), gas |-> GasOf(raw), state |-> StateOf(raw)]

\* const fire = !!data?.flame
Fire(data) == data.flame = TRUE

\* GasHigh with the threshold itself counted as high
GasHigh_Inclusive(data) == data.gas # NoGas /\ data.gas >= GAS_THRESHOLD

\* const gasHigh = gasVal != null && gasVal > GAS_THRESHOLD
GasHigh(data) == data.gas # NoGas /\ data.gas > GAS_THRESHOLD

\* const hazardActive = fire || gasHigh
HazardActive(data) == Fire(data) \/ GasHigh(data)

\* HazardType with gas taking priority over fire
HazardType_GasFirst(data) == IF GasHigh(data) THEN "gas" ELSE "fire"

\* const type = fire ? "fire" : "gas"
HazardType(data) == IF Fire(data) THEN "fire" ELSE "gas"

\* HazardMessage with the reading left out of the gas text
HazardMessage_NoReading(data) ==
    IF Fire(data)
    THEN [text |-> "Fire detected by flame sensor", reading |-> NoGas]
    ELSE [text |-> "Gas level HIGH", reading |-> NoGas]

\* const msg = fire ? "Fire detected by flame sensor" : `Gas level HIGH (${gasVal})`
HazardMessage(data) ==
    IF Fire(data)
    THEN [text |-> "Fire detected by flame sensor", reading |-> NoGas]
    ELSE [text |-> "Gas level HIGH", reading |-> data.gas]

\* { type, message: msg, state: data?.state || "" }
HazardAlert(data) ==
    [type |-> HazardType(data), message |-> HazardMessage(data), state |-> data.state]

\* const distCritical = dist !== null && dist < 15
DistCritical(dist) == dist # NoDist /\ dist < DistCriticalCm

----------------------------------------------------------------------------
(* GlobalAlertBar *)

\* triggerBrowserNotification(type, msg, data?.state || "")
TriggerBrowserNotification(data) ==
    {Fx("notify", HazardType(data), HazardMessage(data).reading)}

\* The body of triggerBrowserNotification as the browser API calls it makes,
\* with perm = Notification.permission and answer = how requestPermission
\* settles if it is called.  Returning early (API missing) and the outer
\* catch (constructor throws) both skip navigator.vibrate.
PermissionAfter(e, perm, answer) ==
    IF e.notification # "missing" /\ perm = "default" /\ answer \in {"granted", "denied"}
    THEN answer
    ELSE perm

\* The answers that can make a difference: requestPermission is called only
\* where the API exists and the permission is still "default"
AnswersFor(e, perm) ==
    IF e.notification # "missing" /\ perm = "default" THEN Answers ELSE {"dismissed"}

NotificationCalls(e, perm, answer) ==
    IF e.notification = "missing"
    THEN {}
    ELSE (IF perm = "default" THEN {"Notification.requestPermission"} ELSE {})
         \cup (IF PermissionAfter(e, perm, answer) = "granted"
               THEN {"new Notification"} ELSE {})
         \cup (IF /\ e.vibrate
                  /\ ~(PermissionAfter(e, perm, answer) = "granted"
                         /\ e.notification = "ctorThrows")
               THEN {"navigator.vibrate"} ELSE {})

\* The audio refs and the browser's audio graph as one value, with the audio
\* API calls made so far in the current operation
AudioNow ==
    [ctx |-> audioCtxRef, pending |-> ctxPending, osc |-> oscillatorRef,
     gain |-> gainRef, live |-> live, wired |-> wired, calls |-> {}]

SetAudio(a) ==
    /\ audioCtxRef' = a.ctx
    /\ ctxPending' = a.pending
    /\ oscillatorRef' = a.osc
    /\ gainRef' = a.gain
    /\ live' = a.live
    /\ wired' = a.wired

\* stopAlarm(): nothing in it throws once the oscillator was started
StopAlarm(a) ==
    LET a1 == IF a.osc
              THEN [a EXCEPT !.osc = FALSE, !.live = @ - 1,
                             !.calls = @ \cup {"osc.stop", "osc.disconnect"}]
              ELSE a
        a2 == IF a1.gain
              THEN [a1 EXCEPT !.gain = FALSE, !.wired = @ - 1,
                              !.calls = @ \cup {"gain.disconnect"}]
              ELSE a1
    IN  IF a2.ctx = "running"
        THEN [a2 EXCEPT !.pending = "suspend", !.calls = @ \cup {"ctx.suspend"}]
        ELSE a2

\* startAlarm without "stop any existing alarm first"
StartAlarm_NoStopFirst(a, e) ==
    IF a.ctx = "null" /\ e.audio = "missing"
    THEN [a EXCEPT !.calls = @ \cup {"new AudioContext"}]
    ELSE LET a1 == IF a.ctx = "null"
                   THEN [a EXCEPT !.ctx = e.audio, !.calls = @ \cup {"new AudioContext"}]
                   ELSE a
             a2 == IF a1.ctx = "suspended"
                   THEN [a1 EXCEPT !.pending = "resume", !.calls = @ \cup {"ctx.resume"}]
                   ELSE a1
         IN  [a2 EXCEPT !.osc = TRUE, !.gain = TRUE, !.live = @ + 1, !.wired = @ + 1,
                        !.calls = @ \cup {"osc.start"}]

\* startAlarm(): new AudioContext() throwing leaves every ref as it was
StartAlarm(a, e) ==
    IF a.ctx = "null" /\ e.audio = "missing"
    THEN [a EXCEPT !.calls = @ \cup {"new AudioContext"}]
    ELSE LET a1 == IF a.ctx = "null"
                   THEN [a EXCEPT !.ctx = e.audio, !.calls = @ \cup {"new AudioContext"}]
                   ELSE a
             a2 == IF a1.ctx = "suspended"
                   THEN [a1 EXCEPT !.pending = "resume", !.calls = @ \cup {"ctx.resume"}]
                   ELSE a1
             a3 == IF a2.osc THEN StopAlarm(a2) ELSE a2
         IN  [a3 EXCEPT !.osc = TRUE, !.gain = TRUE, !.live = @ + 1, !.wired = @ + 1,
                        !.calls = @ \cup {"osc.start"}]

\* useEffect(() => {...}, [visible, alert]) after a render with these values
AlarmEffect(a, e, visibleNow, alertNow) ==
    IF visibleNow /\ alertNow # Null THEN StartAlarm(a, e) ELSE StopAlarm(a)

\* The browser carries out the pending suspend() or resume() of the context;
\* a resume() without a user gesture can leave it suspended
CtxSettle ==
    /\ ctxPending # "none"
    /\ ctxPending' = "none"
    /\ audioCtxRef' \in IF ctxPending = "suspend" THEN {"suspended"}
                                                  ELSE {"suspended", "running"}
    /\ act' = "ctxSettle"
    /\ fx' = {}
    /\ calls' = {}
    /\ UNCHANGED <<rover, page, mounted, gab, gabPending, trackers, pagePending,
                   oscillatorRef, gainRef, live, wired, permission, env, buzzerOff,
                   prev, seen, flight, episode, camera>>

\* GabThen with an alert that clears itself when the hazard is gone
GabThen_AutoClear(data) ==
    /\ acknowledgedRef' = acknowledgedRef
    /\ IF HazardActive(data) /\ ~acknowledgedRef
       THEN /\ alert' = IF mounted THEN HazardAlert(data) ELSE alert
            /\ visible' = IF mounted THEN TRUE ELSE visible
            /\ IF ~lastHazardRef
               THEN /\ lastHazardRef' = TRUE
                    /\ fx' = TriggerBrowserNotification(data)
               ELSE /\ lastHazardRef' = lastHazardRef
                    /\ fx' = {}
       ELSE /\ alert' = alert
            /\ visible' = IF ~HazardActive(data) THEN FALSE ELSE visible
            /\ lastHazardRef' = IF ~HazardActive(data) THEN FALSE ELSE lastHazardRef
            /\ fx' = {}

\* GabThen with the falling edge forgotten: lastHazardRef is never cleared
GabThen_NoFallingEdge(data) ==
    /\ acknowledgedRef' = acknowledgedRef
    /\ IF HazardActive(data) /\ ~acknowledgedRef
       THEN /\ alert' = IF mounted THEN HazardAlert(data) ELSE alert
            /\ visible' = IF mounted THEN TRUE ELSE visible
            /\ IF ~lastHazardRef
               THEN /\ lastHazardRef' = TRUE
                    /\ fx' = TriggerBrowserNotification(data)
               ELSE /\ lastHazardRef' = lastHazardRef
                    /\ fx' = {}
       ELSE /\ UNCHANGED <<alert, visible, lastHazardRef>>
            /\ fx' = {}

\* GabThen with the rising edge suppressed while an alert is still showing
GabThen_ArmedSuppresses(data) ==
    /\ acknowledgedRef' = acknowledgedRef
    /\ IF HazardActive(data) /\ ~acknowledgedRef
       THEN /\ alert' = IF mounted THEN HazardAlert(data) ELSE alert
            /\ visible' = IF mounted THEN TRUE ELSE visible
            /\ IF ~lastHazardRef /\ ~visible
               THEN /\ lastHazardRef' = TRUE
                    /\ fx' = TriggerBrowserNotification(data)
               ELSE /\ lastHazardRef' = lastHazardRef
                    /\ fx' = {}
       ELSE /\ UNCHANGED <<alert, visible>>
            /\ lastHazardRef' = IF ~HazardActive(data) THEN FALSE ELSE lastHazardRef
            /\ fx' = {}

\* GabThen that shows the alert only where the Notification API exists
GabThen_NeedsNotification(data) ==
    /\ acknowledgedRef' = acknowledgedRef
    /\ IF HazardActive(data) /\ ~acknowledgedRef
       THEN /\ alert' = IF mounted /\ env.notification # "missing"
                         THEN HazardAlert(data) ELSE alert
            /\ visible' = IF mounted /\ env.notification # "missing" THEN TRUE ELSE visible
            /\ IF ~lastHazardRef
               THEN /\ lastHazardRef' = TRUE
                    /\ fx' = TriggerBrowserNotification(data)
               ELSE /\ lastHazardRef' = lastHazardRef
                    /\ fx' = {}
       ELSE /\ UNCHANGED <<alert, visible>>
            /\ lastHazardRef' = IF ~HazardActive(data) THEN FALSE ELSE lastHazardRef
            /\ fx' = {}

\* GabThen that arms on every hazard poll, acknowledged or not
GabThen_IgnoresAcknowledge(data) ==
    /\ acknowledgedRef' = acknowledgedRef
    /\ IF HazardActive(data)
       THEN /\ alert' = IF mounted THEN HazardAlert(data) ELSE alert
            /\ visible' = IF mounted THEN TRUE ELSE visible
            /\ IF ~lastHazardRef
               THEN /\ lastHazardRef' = TRUE
                    /\ fx' = TriggerBrowserNotification(data)
               ELSE /\ lastHazardRef' = lastHazardRef
                    /\ fx' = {}
       ELSE /\ UNCHANGED <<alert, visible>>
            /\ lastHazardRef' = IF ~HazardActive(data) THEN FALSE ELSE lastHazardRef
            /\ fx' = {}

\* GabThen that notifies on every hazard poll, rising edge or not
GabThen_NotifiesEveryHazardPoll(data) ==
    /\ acknowledgedRef' = acknowledgedRef
    /\ IF HazardActive(data) /\ ~acknowledgedRef
       THEN /\ alert' = IF mounted THEN HazardAlert(data) ELSE alert
            /\ visible' = IF mounted THEN TRUE ELSE visible
            /\ IF ~lastHazardRef
               THEN /\ lastHazardRef' = TRUE
                    /\ fx' = TriggerBrowserNotification(data)
               ELSE /\ lastHazardRef' = lastHazardRef
                    /\ fx' = TriggerBrowserNotification(data)
       ELSE /\ UNCHANGED <<alert, visible>>
            /\ lastHazardRef' = IF ~HazardActive(data) THEN FALSE ELSE lastHazardRef
            /\ fx' = {}

\* GabThen that forgets the hazard on a sustained poll
GabThen_Retrigger(data) ==
    /\ acknowledgedRef' = acknowledgedRef
    /\ IF HazardActive(data) /\ ~acknowledgedRef
       THEN /\ alert' = IF mounted THEN HazardAlert(data) ELSE alert
            /\ visible' = IF mounted THEN TRUE ELSE visible
            /\ IF ~lastHazardRef
               THEN /\ lastHazardRef' = TRUE
                    /\ fx' = TriggerBrowserNotification(data)
               ELSE /\ lastHazardRef' = FALSE
                    /\ fx' = {}
       ELSE /\ UNCHANGED <<alert, visible>>
            /\ lastHazardRef' = IF ~HazardActive(data) THEN FALSE ELSE lastHazardRef
            /\ fx' = {}

\* The .then((data) => {...}) callback of poll.  setAlert and setVisible act on
\* a mounted component only; the refs and the notification do not depend on it.
GabThen(data) ==
    /\ acknowledgedRef' = acknowledgedRef
    /\ IF HazardActive(data) /\ ~acknowledgedRef
       THEN /\ alert' = IF mounted THEN HazardAlert(data) ELSE alert
            /\ visible' = IF mounted THEN TRUE ELSE visible
            /\ IF ~lastHazardRef
               THEN /\ lastHazardRef' = TRUE
                    /\ fx' = TriggerBrowserNotification(data)
               ELSE /\ lastHazardRef' = lastHazardRef
                    /\ fx' = {}
       ELSE /\ UNCHANGED <<alert, visible>>
            /\ lastHazardRef' = IF ~HazardActive(data) THEN FALSE ELSE lastHazardRef
            /\ fx' = {}

\* GabCatch that treats a failed poll as "no hazard"
GabCatch_ClearsTracker ==
    /\ UNCHANGED <<alert, visible, acknowledgedRef>>
    /\ lastHazardRef' = FALSE
    /\ fx' = {}

\* The .catch(() => {}) callback of poll
GabCatch ==
    /\ UNCHANGED gab
    /\ fx' = {}

\* The status fetches of GlobalAlertBar that are in flight, oldest first, each
\* with the response the rover gave it, if it has answered.  They are told
\* apart only in a session that follows them (flight.on); otherwise only
\* their number, gabPending, is kept.
NoFlight == [on |-> FALSE, gab |-> << >>]

Unanswered == [answered |-> FALSE, data |-> [flame |-> FALSE, gas |-> NoGas, state |-> ""]]

Without(q, i) == SubSeq(q, 1, i - 1) \o SubSeq(q, i + 1, Len(q))

FlightSlots == IF flight.on THEN 1..Len(flight.gab) ELSE {0}

FlightAfterPoll == IF flight.on THEN [flight EXCEPT !.gab = Append(@, Unanswered)] ELSE flight

FlightAfterSettle(i) == IF flight.on THEN [flight EXCEPT !.gab = Without(@, i)] ELSE flight

FlightAfterMount == IF flight.on THEN [flight EXCEPT !.gab = <<Unanswered>>] ELSE flight

\* poll(): one more status fetch in flight (first call, or a tick of
\* setInterval(poll, 1500), which clearInterval stops at unmount)
GabTick ==
    /\ mounted
    /\ gabPending < MaxInFlight
    /\ gabPending' = gabPending + 1
    /\ act' = "gabTick"
    /\ fx' = {}
    /\ NoCalls
    /\ UNCHANGED <<rover, page, mounted, gab, trackers, pagePending, prev, seen, episode,
                   camera>>
    /\ flight' = FlightAfterPoll

\* setAlert({...}) was called on a mounted component: the new object is a new
\* state value, so the component re-renders and the effect on [visible, alert]
\* runs again
Rerendered(data) == mounted /\ HazardActive(data) /\ ~acknowledgedRef

\* A status fetch resolves, its JSON parses to data, the callback runs, and
\* the re-render it causes runs the alarm effect
GabPoll(data) ==
    /\ gabPending > 0
    /\ gabPending' = gabPending - 1
    /\ GabThen(data)
    /\ rover' = data
    /\ act' = "gabPoll"
    /\ prev' = [prev EXCEPT !.hazard = HazardActive(data)]
    /\ \E answer \in AnswersFor(env, permission) :
          /\ permission' = IF Notified(fx') THEN PermissionAfter(env, permission, answer)
                                            ELSE permission
          /\ LET a == IF Rerendered(data) \/ visible' # visible
                      THEN AlarmEffect(AudioNow, env, visible', alert')
                      ELSE AudioNow
             IN  /\ SetAudio(a)
                 /\ calls' = a.calls \cup (IF Notified(fx')
                                           THEN NotificationCalls(env, permission, answer)
                                           ELSE {})
    /\ UNCHANGED <<page, mounted, trackers, pagePending, env, buzzerOff, camera>>

\* A status fetch rejects, or r.json() rejects
GabPollFail ==
    /\ gabPending > 0
    /\ gabPending' = gabPending - 1
    /\ GabCatch
    /\ act' = "gabFail"
    /\ NoCalls
    /\ UNCHANGED <<rover, page, mounted, trackers, pagePending, prev, seen, episode,
                   camera>>
    /\ \E i \in FlightSlots : flight' = FlightAfterSettle(i)

\* handleOff that waits for the rover's answer before it hides the alert
HandleOff_AwaitsFirst ==
    /\ mounted /\ visible /\ alert # Null
    /\ acknowledgedRef' = TRUE
    /\ buzzerOff' = "pending"
    /\ fx' = {Fx("buzzerOff", "none", NoGas)}
    /\ calls' = {}
    /\ act' = "handleOff"
    /\ prev' = [prev EXCEPT !.acked = TRUE]
    /\ UNCHANGED <<rover, page, mounted, alert, visible, lastHazardRef, gabPending,
                   trackers, pagePending, audio, permission, env, seen, flight, episode, camera>>

\* handleOff that also resets the hazard tracker
HandleOff_ClearsTracker ==
    /\ mounted /\ visible /\ alert # Null
    /\ acknowledgedRef' = TRUE
    /\ visible' = FALSE
    /\ lastHazardRef' = FALSE
    /\ LET a == AlarmEffect(StopAlarm(AudioNow), env, FALSE, alert)
       IN  SetAudio(a) /\ calls' = a.calls
    /\ buzzerOff' = "pending"
    /\ fx' = {Fx("buzzerOff", "none", NoGas)}
    /\ act' = "handleOff"
    /\ prev' = [prev EXCEPT !.acked = TRUE]
    /\ UNCHANGED <<rover, page, mounted, alert, gabPending, trackers,
                   pagePending, permission, env, seen, flight, episode, camera>>

\* handleOff that leaves the alert on screen
HandleOff_NoHide ==
    /\ mounted /\ visible /\ alert # Null
    /\ acknowledgedRef' = TRUE
    /\ LET a == StopAlarm(AudioNow)
       IN  SetAudio(a) /\ calls' = a.calls
    /\ buzzerOff' = "pending"
    /\ fx' = {Fx("buzzerOff", "none", NoGas)}
    /\ act' = "handleOff"
    /\ prev' = [prev EXCEPT !.acked = TRUE]
    /\ UNCHANGED <<rover, page, mounted, alert, visible, lastHazardRef, gabPending,
                   trackers, pagePending, permission, env, seen, flight, episode, camera>>

\* handleOff: the OK button, rendered only while visible && alert.  It runs up
\* to the awaited fetch of /buzzer/off, its last statement; the re-render for
\* setVisible(false) then runs the alarm effect, a second stopAlarm().
HandleOff ==
    /\ mounted /\ visible /\ alert # Null
    /\ acknowledgedRef' = TRUE
    /\ visible' = FALSE
    /\ LET a == AlarmEffect(StopAlarm(AudioNow), env, FALSE, alert)
       IN  SetAudio(a) /\ calls' = a.calls
    /\ buzzerOff' = "pending"
    /\ fx' = {Fx("buzzerOff", "none", NoGas)}
    /\ act' = "handleOff"
    /\ prev' = [prev EXCEPT !.acked = TRUE]
    /\ UNCHANGED <<rover, page, mounted, alert, lastHazardRef, gabPending, trackers,
                   pagePending, permission, env, seen, flight, episode, camera>>

\* The fetch of /buzzer/off settles: the await resumes, or catch (e) {} takes
\* the rejection; handleOff has nothing left to do either way
BuzzerOffSettle ==
    /\ buzzerOff = "pending"
    /\ buzzerOff' = "idle"
    /\ act' = "buzzerSettle"
    /\ fx' = {}
    /\ calls' = {}
    /\ UNCHANGED <<rover, page, mounted, gab, gabPending, trackers, pagePending,
                   audio, permission, env, prev, seen, flight, episode, camera>>

----------------------------------------------------------------------------
(* Analytics page: status poller with one edge tracker per channel.  The      *)
(* display state it also sets (espStatus, espError, fireEvents, logs) takes   *)
(* no part in hazard detection and is left out.                               *)

\* if (flameNow && !lastFlameRef.current) {...}
AnalyticsFlameFx(data) ==
    IF Fire(data) /\ ~lastFlameRef
    THEN {Fx("log", "fire", NoGas), Fx("alert", "fire", NoGas), Fx("loadLogs", "fire", NoGas)}
    ELSE {}

\* if (gasHigh && !lastGasHighRef.current) {...}
AnalyticsGasFx(data) ==
    IF GasHigh(data) /\ ~lastGasHighRef
    THEN {Fx("log", "gas", data.gas), Fx("alert", "gas", NoGas), Fx("loadLogs", "gas", NoGas)}
    ELSE {}

\* if (edgeNow && !lastEdgeRef.current) {...}
AnalyticsEdgeFx(edgeNow) ==
    IF edgeNow /\ ~lastEdgeRef
    THEN {Fx("log", "edge", NoGas), Fx("loadLogs", "edge", NoGas)}
    ELSE {}

\* if (distCritical && !lastDistanceCriticalRef.current) {...}
AnalyticsDistFx(dist) ==
    IF DistCritical(dist) /\ ~lastDistanceCriticalRef
    THEN {Fx("log", "ultrasonic", dist), Fx("loadLogs", "ultrasonic", NoGas)}
    ELSE {}

\* The .then((data) => {...}) callback of poll; it touches refs and fetch only,
\* so it runs the same whether or not the page is still mounted.
AnalyticsThen(data, edgeNow, dist) ==
    /\ fx' = AnalyticsFlameFx(data) \cup AnalyticsGasFx(data)
                \cup AnalyticsEdgeFx(edgeNow) \cup AnalyticsDistFx(dist)
    /\ lastFlameRef' = Fire(data)
    /\ lastGasHighRef' = GasHigh(data)
    /\ lastEdgeRef' = edgeNow
    /\ lastDistanceCriticalRef' = DistCritical(dist)

\* The .catch callback of poll: setEspError only
AnalyticsCatch ==
    /\ UNCHANGED trackers
    /\ fx' = {}

----------------------------------------------------------------------------
(* Manual page: the status poller stores the snapshot with setData, and the   *)
(* effect on [data] posts the alerts.                                         *)

\* useEffect(() => {...}, [data]): runs after setData on a mounted page
ManualEffect(data) ==
    IF mounted
    THEN /\ fx' = (IF Fire(data) /\ ~lastFlameRef THEN {Fx("alert", "fire", NoGas)} ELSE {})
                    \cup (IF GasHigh(data) /\ ~lastGasHighRef
                          THEN {Fx("alert", "gas", NoGas)} ELSE {})
         /\ lastFlameRef' = Fire(data)
         /\ lastGasHighRef' = GasHigh(data)
         /\ UNCHANGED <<lastEdgeRef, lastDistanceCriticalRef>>
    ELSE /\ fx' = {}
         /\ UNCHANGED trackers

\* .catch(() => {})
ManualCatch ==
    /\ UNCHANGED trackers
    /\ fx' = {}

----------------------------------------------------------------------------
(* The page pollers as operations *)

\* setInterval(poll, 3000) on Analytics, setInterval(..., 1000) on Manual
PageTick ==
    /\ mounted
    /\ page \in {"analytics", "manual"}
    /\ pagePending < MaxInFlight
    /\ pagePending' = pagePending + 1
    /\ act' = "pageTick"
    /\ fx' = {}
    /\ NoCalls
    /\ UNCHANGED <<rover, page, mounted, gab, gabPending, trackers, prev, seen, flight, episode, camera>>

\* data: the parsed response; edgeNow and dist: its edge and distance fields,
\* which only the Analytics callback reads
PagePoll(data, edgeNow, dist) ==
    /\ pagePending > 0
    /\ pagePending' = pagePending - 1
    /\ IF page = "analytics"
       THEN AnalyticsThen(data, edgeNow, dist)
       ELSE ~edgeNow /\ dist = NoDist /\ ManualEffect(data)
    /\ rover' = data
    /\ act' = "pagePoll"
    /\ NoCalls
    /\ prev' = [prev EXCEPT !.fire = Fire(data), !.gas = GasHigh(data)]
    /\ UNCHANGED <<page, mounted, gab, gabPending, flight, camera>>

PagePollFail ==
    /\ pagePending > 0
    /\ pagePending' = pagePending - 1
    /\ IF page = "analytics" THEN AnalyticsCatch ELSE ManualCatch
    /\ act' = "pageFail"
    /\ NoCalls
    /\ UNCHANGED <<rover, page, mounted, gab, gabPending, prev, seen, flight, episode, camera>>

----------------------------------------------------------------------------
(* The rover, and the hazard episodes of its telemetry *)

ChannelActive(ch, data) == IF ch = "fire" THEN Fire(data) ELSE GasHigh(data)

\* An episode of a channel opens when the telemetry turns active and closes
\* when it turns inactive; its POST counts stay until the next one opens.
\* polled: some status poll was processed while the episode was open.
EpisodeAfterRover(new) ==
    IF ~episode.on THEN episode
    ELSE [episode EXCEPT !.of = [ch \in Channels |->
            IF ~ChannelActive(ch, rover) /\ ChannelActive(ch, new)
            THEN [open |-> TRUE, seen |-> TRUE, polled |-> FALSE, log |-> 0, alert |-> 0]
            ELSE IF ChannelActive(ch, rover) /\ ~ChannelActive(ch, new)
                 THEN [episode.of[ch] EXCEPT !.open = FALSE]
                 ELSE episode.of[ch]]]

Bump(n, k) == IF n + k > EpisodeCap THEN EpisodeCap ELSE n + k

EpisodeAfterPosts(fxs) ==
    IF ~episode.on THEN episode
    ELSE [episode EXCEPT !.of = [ch \in Channels |->
            [episode.of[ch] EXCEPT
                !.polled = @ \/ episode.of[ch].open,
                !.log = Bump(@, Cardinality({f \in fxs : f.op = "log" /\ f.ch = ch})),
                !.alert = Bump(@, Cardinality({f \in fxs : f.op = "alert" /\ f.ch = ch}))]]]

EpisodeInit(on, data) ==
    [on |-> on,
     of |-> [ch \in Channels |->
               IF on /\ ChannelActive(ch, data)
               THEN [open |-> TRUE, seen |-> TRUE, polled |-> FALSE, log |-> 0, alert |-> 0]
               ELSE NoEpisode]]

\* The rover's sensors change what GET /status reports, one reading at a time
\* (any number of changes can take place between two polls)
RoverChange(new) ==
    /\ Cardinality({k \in DOMAIN rover : new[k] # rover[k]}) = 1
    /\ rover' = new
    /\ episode' = EpisodeAfterRover(new)
    /\ act' = "rover"
    /\ fx' = {}
    /\ NoCalls
    /\ UNCHANGED <<page, mounted, gab, gabPending, trackers, pagePending, prev, seen, flight, camera>>

----------------------------------------------------------------------------
(* The live camera feed.  Manual runs `loop`: capture, apply the frame,      *)
(* wait 500 ms, again, until its effect's `cancelled` is set.  Patrol (and   *)
(* the Dashboard of src/unnamed/part_004) calls fetchFrame once and then     *)
(* from setInterval(fetchFrame, 1000).  Either starts a face recognition on  *)
(* a frame when recognitionInFlightRef is clear and MIN_INTERVAL_MS passed.  *)
(* `cancelled` belongs to one run of the effect and the refs to one mounted  *)
(* component: what an unmounted page left in flight is counted apart         *)
(* (oldCapture, oldDelay, oldFetching, oldRequests).  The feed is followed   *)
(* only in a camera session (camera.on).                                     *)

CameraPages == {"manual", "patrol"}

NoCamera ==
    [on |-> FALSE, pc |-> "idle", fetching |-> 0, cameraFrameUrl |-> FALSE,
     cameraError |-> FALSE, recognitionInFlightRef |-> FALSE,
     lastRecognitionAtRef |-> FALSE, requests |-> 0,
     oldCapture |-> 0, oldDelay |-> 0, oldFetching |-> 0, oldRequests |-> 0,
     mounts |-> 0]

\* useState / useRef initial values of page p, loop() or the first fetchFrame()
CameraMounted(p, c) ==
    [c EXCEPT !.on = TRUE,
              !.pc = IF p = "manual" THEN "capture" ELSE "idle",
              !.fetching = IF p = "patrol" THEN 1 ELSE 0,
              !.cameraFrameUrl = FALSE,
              !.cameraError = FALSE,
              !.recognitionInFlightRef = FALSE,
              !.lastRecognitionAtRef = FALSE,
              !.requests = 0,
              !.mounts = @ + 1]

CameraMayMount == camera.on => camera.mounts < MaxMounts

CameraAfterMount(p) == IF camera.on THEN CameraMounted(p, camera) ELSE camera

\* The cleanup of the camera effect: cancelled = true, clearInterval(id),
\* setCameraFrameUrl(null).  Requests already issued stay in flight.
CameraAfterUnmount ==
    IF camera.on
    THEN [camera EXCEPT !.pc = "idle",
                        !.fetching = 0,
                        !.cameraFrameUrl = FALSE,
                        !.requests = 0,
                        !.oldCapture = @ + (IF camera.pc = "capture" THEN 1 ELSE 0),
                        !.oldDelay = @ + (IF camera.pc = "delay" THEN 1 ELSE 0),
                        !.oldFetching = @ + camera.fetching,
                        !.oldRequests = @ + camera.requests]
    ELSE camera

\* What a camera step leaves alone
CameraOnly ==
    /\ camera.on
    /\ NoCalls
    /\ UNCHANGED <<rover, page, mounted, gab, gabPending, trackers, pagePending, prev,
                   seen, flight, episode>>

\* !recognitionInFlightRef.current && now - lastRecognitionAtRef.current >= MIN_INTERVAL_MS
\* (lastRecognitionAtRef starts at 0, which is always long ago)
StartsRecognition(c, elapsed) ==
    ~c.recognitionInFlightRef /\ (elapsed \/ ~c.lastRecognitionAtRef)

\* The body of loop / fetchFrame after `await fetch(.../capture)` settles:
\* outcome "ok" is a response with res.ok and a blob, "fail" a rejection or
\* !res.ok.  cancelled: the flag of the effect run this call belongs to.
CaptureSettled(c, cancelled, outcome, elapsed) ==
    IF cancelled
    THEN c
    ELSE IF outcome = "fail"
    THEN [c EXCEPT !.cameraError = TRUE]
    ELSE IF StartsRecognition(c, elapsed)
    THEN [c EXCEPT !.cameraFrameUrl = TRUE, !.cameraError = FALSE,
                   !.lastRecognitionAtRef = TRUE, !.recognitionInFlightRef = TRUE,
                   !.requests = @ + 1]
    ELSE [c EXCEPT !.cameraFrameUrl = TRUE, !.cameraError = FALSE]

CaptureFx(c, cancelled, outcome, elapsed) ==
    (IF ~cancelled /\ outcome = "ok" THEN {Fx("frame", "camera", NoGas)} ELSE {})
        \cup (IF ~cancelled /\ outcome = "ok" /\ StartsRecognition(c, elapsed)
              THEN {Fx("recognize", "camera", NoGas)} ELSE {})

\* while (!cancelled) that never looks at the flag
LoopWhile_Forever(cancelled) == TRUE

\* while (!cancelled)
LoopWhile(cancelled) == ~cancelled

\* Manual: the capture a loop is waiting for settles.  A cancelled loop leaves
\* at `if (!blob || cancelled) break`, or passes through the catch to the delay.
LoopCapture(cancelled, outcome) ==
    /\ CameraOnly
    /\ IF cancelled THEN camera.oldCapture > 0 ELSE mounted /\ camera.pc = "capture"
    /\ \E elapsed \in BOOLEAN :
          LET c == CaptureSettled(camera, cancelled, outcome, elapsed)
          IN  /\ camera' = IF ~cancelled
                           THEN [c EXCEPT !.pc = "delay"]
                           ELSE IF outcome = "ok"
                           THEN [c EXCEPT !.oldCapture = @ - 1]
                           ELSE [c EXCEPT !.oldCapture = @ - 1, !.oldDelay = @ + 1]
              /\ fx' = CaptureFx(camera, cancelled, outcome, elapsed)
    /\ act' = "capture"

\* Manual: the 500 ms delay of a loop ends and the while condition is tested
LoopDelay(cancelled) ==
    /\ CameraOnly
    /\ IF cancelled THEN camera.oldDelay > 0 ELSE mounted /\ camera.pc = "delay"
    /\ IF LoopWhile(cancelled)
       THEN /\ camera' = IF cancelled
                         THEN [camera EXCEPT !.oldDelay = @ - 1, !.oldCapture = @ + 1]
                         ELSE [camera EXCEPT !.pc = "capture"]
            /\ fx' = {Fx("capture", "camera", NoGas)}
       ELSE /\ camera' = [camera EXCEPT !.oldDelay = @ - 1]
            /\ fx' = {}
    /\ act' = "delay"

\* Patrol: a tick of setInterval(fetchFrame, 1000)
FetchFrame ==
    /\ CameraOnly
    /\ mounted /\ page = "patrol"
    /\ camera.fetching < MaxInFlight
    /\ camera' = [camera EXCEPT !.fetching = @ + 1]
    /\ fx' = {Fx("capture", "camera", NoGas)}
    /\ act' = "fetchFrame"

\* Patrol: the capture of a fetchFrame call settles
FetchFrameSettled(cancelled, outcome) ==
    /\ CameraOnly
    /\ IF cancelled THEN camera.oldFetching > 0 ELSE mounted /\ camera.fetching > 0
    /\ \E elapsed \in BOOLEAN :
          LET c == CaptureSettled(camera, cancelled, outcome, elapsed)
          IN  /\ camera' = IF cancelled
                           THEN [c EXCEPT !.oldFetching = @ - 1]
                           ELSE [c EXCEPT !.fetching = @ - 1]
              /\ fx' = CaptureFx(camera, cancelled, outcome, elapsed)
    /\ act' = "frame"

\* runFaceRecognition(file) settles: .then(setDetections) or .catch, and
\* .finally clears the ref of the component that started it.  old: that
\* component is no longer the mounted one.
RecognitionSettled(old, outcome) ==
    /\ CameraOnly
    /\ IF old THEN camera.oldRequests > 0 ELSE camera.requests > 0
    /\ camera' = IF old
                 THEN [camera EXCEPT !.oldRequests = @ - 1]
                 ELSE [camera EXCEPT !.requests = @ - 1, !.recognitionInFlightRef = FALSE]
    /\ fx' = IF outcome = "ok" /\ ~old THEN {Fx("detections", "camera", NoGas)} ELSE {}
    /\ act' = "recognized"

CaptureOutcomes == {"ok", "fail"}

----------------------------------------------------------------------------
(* Page lifecycle: every page renders Navbar and with it a GlobalAlertBar *)

\* The state of a freshly mounted page p: useState and useRef initial values,
\* the first poll() of GlobalAlertBar and, on Analytics, of the page
Mounted(p, alert0, visible0, ack0, lastHazard0, gabPending0, lastFlame0, lastGasHigh0, lastEdge0, lastDistanceCritical0, pagePending0) ==
    /\ alert0 = Null
    /\ visible0 = FALSE
    /\ ack0 = FALSE
    /\ lastHazard0 = FALSE
    /\ gabPending0 = 1
    /\ lastFlame0 = FALSE
    /\ lastGasHigh0 = FALSE
    /\ lastEdge0 = FALSE
    /\ lastDistanceCritical0 = FALSE
    /\ pagePending0 = IF p = "analytics" THEN 1 ELSE 0

\* The audio refs of a fresh GlobalAlertBar (useRef(null)), and handleOff not
\* running; the first run of the alarm effect is a stopAlarm() that finds nothing
MountedAudio(ctx0, pending0, osc0, gain0, buzzerOff0) ==
    /\ ctx0 = "null"
    /\ pending0 = "none"
    /\ osc0 = FALSE
    /\ gain0 = FALSE
    /\ buzzerOff0 = "idle"

\* Navigation, second half: the next page mounts with fresh components.  What
\* the previous page still had in flight is dropped here (it settles unseen).
\* Oscillators and gain nodes the previous page left behind stay as they are.
Mount(p) ==
    /\ ~mounted
    /\ mounted' = TRUE
    /\ page' = p
    /\ Mounted(p, alert', visible', acknowledgedRef', lastHazardRef', gabPending',
               lastFlameRef', lastGasHighRef', lastEdgeRef', lastDistanceCriticalRef',
               pagePending')
    /\ MountedAudio(audioCtxRef', ctxPending', oscillatorRef', gainRef', buzzerOff')
    /\ prev' = NoPrev
    /\ act' = "mount"
    /\ fx' = {}
    /\ calls' = {}
    /\ UNCHANGED <<rover, live, wired, permission, env, seen, episode>>
    /\ flight' = FlightAfterMount
    /\ CameraMayMount
    /\ camera' = CameraAfterMount(p)

\* Unmount whose cleanup leaves the alarm alone
Unmount_NoStopAlarm ==
    /\ mounted
    /\ mounted' = FALSE
    /\ act' = "unmount"
    /\ fx' = {}
    /\ NoCalls
    /\ UNCHANGED <<rover, page, gab, gabPending, trackers, pagePending, prev, seen, flight, episode>>
    /\ camera' = CameraAfterUnmount

\* Navigation, first half: the page unmounts; the effect cleanups clear the
\* intervals and call stopAlarm().  Fetches already issued stay in flight.
Unmount ==
    /\ mounted
    /\ mounted' = FALSE
    /\ LET a == StopAlarm(AudioNow)
       IN  SetAudio(a) /\ calls' = a.calls
    /\ act' = "unmount"
    /\ fx' = {}
    /\ UNCHANGED <<rover, page, gab, gabPending, trackers, pagePending, permission,
                   env, buzzerOff, prev, seen, flight, episode>>
    /\ camera' = CameraAfterUnmount

----------------------------------------------------------------------------
(* The dashboard session *)

InitOn(p) ==
    /\ page = p
    /\ mounted = TRUE
    /\ Mounted(p, alert, visible, acknowledgedRef, lastHazardRef, gabPending,
               lastFlameRef, lastGasHighRef, lastEdgeRef, lastDistanceCriticalRef,
               pagePending)
    /\ MountedAudio(audioCtxRef, ctxPending, oscillatorRef, gainRef, buzzerOff)
    /\ live = 0
    /\ wired = 0
    /\ prev = NoPrev
    /\ act = "mount"
    /\ fx = {}
    /\ calls = {}

\* A browser with notifications granted and no Web Audio
QuietBrowser == [notification |-> "ok", vibrate |-> TRUE, audio |-> "missing"]

Init ==
    /\ rover \in Snapshots
    /\ env = QuietBrowser
    /\ permission = "granted"
    /\ \E p \in Pages : InitOn(p)
    /\ seen = NoSeen
    /\ flight = NoFlight
    /\ camera = NoCamera
    /\ episode = EpisodeInit(FALSE, rover)

\* A status response carries the telemetry current when it is processed.
\* In this session the request of handleOff stays pending until the next page
\* mounts: its settling touches nothing but buzzerOff, which no operation
\* reads, and is followed in SpecAlarm.
GabPollOk ==
    /\ GabPoll(rover)
    /\ episode' = EpisodeAfterPosts(fx')
    /\ UNCHANGED <<seen, flight>>

PagePollOk ==
    /\ \E edgeNow \in BOOLEAN, dist \in DistVals : PagePoll(rover, edgeNow, dist)
    /\ episode' = EpisodeAfterPosts(fx')
    /\ UNCHANGED seen

Next ==
    \/ \E new \in Snapshots : RoverChange(new)
    \/ GabTick
    \/ GabPollOk
    \/ GabPollFail
    \/ HandleOff
    \/ PageTick
    \/ PagePollOk
    \/ PagePollFail
    \/ Unmount
    \/ \E p \in Pages : Mount(p)

Spec == Init /\ [][Next]_vars

----------------------------------------------------------------------------
(* The same session with the hazard episodes of the rover counted.  The      *)
(* telemetry is restricted to what opens and closes episodes: flame on or    *)
(* off, gas below or above the threshold.                                    *)

EpisodeSnapshots == {s \in Snapshots : s.state = "MOVING" /\ s.gas \in {1000, 1600}}

InitEpisode ==
    /\ rover \in EpisodeSnapshots
    /\ env = QuietBrowser
    /\ permission = "granted"
    /\ \E p \in Pages : InitOn(p)
    /\ seen = NoSeen
    /\ flight = NoFlight
    /\ camera = NoCamera
    /\ episode = EpisodeInit(TRUE, rover)

EpisodePagePoll ==
    /\ PagePoll(rover, FALSE, NoDist)
    /\ episode' = EpisodeAfterPosts(fx')
    /\ UNCHANGED seen

NextEpisode ==
    \/ \E new \in EpisodeSnapshots : RoverChange(new)
    \/ GabTick
    \/ GabPollOk
    \/ GabPollFail
    \/ HandleOff
    \/ PageTick
    \/ EpisodePagePoll
    \/ PagePollFail
    \/ Unmount
    \/ \E p \in Pages : Mount(p)

SpecEpisode == InitEpisode /\ [][NextEpisode]_vars

----------------------------------------------------------------------------
(* A scripted feed: every poller is fed the activity sequence below, one     *)
(* value per successfully processed poll, from the freshly mounted state.    *)
(* GlobalAlertBar tracks the hazard (fire or gas high); the page poller is   *)
(* observed on the channel seen.ch.  Each processed poll records whether     *)
(* it took the rising-edge branch, i.e. whether it dispatched.               *)

ActivitySeq == <<FALSE, FALSE, TRUE, TRUE, TRUE, FALSE, TRUE>>

SeqSnapshots == {s \in Snapshots : s.state = "MOVING"}

InitSeq ==
    /\ rover = [flame |-> FALSE, gas |-> NoGas, state |-> "MOVING"]
    /\ env = QuietBrowser
    /\ permission = "granted"
    /\ \E p \in Pages : InitOn(p)
    /\ \E ch \in Channels : seen = [NoSeen EXCEPT !.ch = ch]
    /\ flight = NoFlight
    /\ camera = NoCamera
    /\ episode = EpisodeInit(FALSE, rover)

SeqGabPoll ==
    /\ Len(seen.gab) < Len(ActivitySeq)
    /\ \E data \in SeqSnapshots :
          /\ HazardActive(data) = ActivitySeq[Len(seen.gab) + 1]
          /\ GabPoll(data)
    /\ seen' = [seen EXCEPT !.gab = Append(@, \E f \in fx' : f.op = "notify")]
    /\ UNCHANGED <<episode, flight>>

SeqPagePoll ==
    /\ Len(seen.page) < Len(ActivitySeq)
    /\ \E data \in SeqSnapshots :
          /\ ChannelActive(seen.ch, data) = ActivitySeq[Len(seen.page) + 1]
          /\ PagePoll(data, FALSE, NoDist)
    /\ seen' = [seen EXCEPT
                  !.page = Append(@, \E f \in fx' : f.op = "alert" /\ f.ch = seen.ch)]
    /\ UNCHANGED episode

NextSeq ==
    \/ GabTick
    \/ SeqGabPoll
    \/ GabPollFail
    \/ PageTick
    \/ SeqPagePoll
    \/ PagePollFail

SpecSeq == InitSeq /\ [][NextSeq]_vars

----------------------------------------------------------------------------
(* The session in any browser: the Notification, vibration and Web Audio     *)
(* APIs present or not, the permission in any state, the audio context       *)
(* settling its suspend() and resume() requests on its own time.             *)

InitAlarm ==
    /\ rover \in EpisodeSnapshots
    /\ env \in Browsers
    /\ permission \in Permissions
    /\ InitOn("dashboard")
    /\ seen = NoSeen
    /\ flight = NoFlight
    /\ camera = NoCamera
    /\ episode = EpisodeInit(FALSE, rover)

NextAlarm ==
    \/ \E new \in EpisodeSnapshots : RoverChange(new)
    \/ GabTick
    \/ GabPollOk
    \/ GabPollFail
    \/ HandleOff
    \/ BuzzerOffSettle
    \/ CtxSettle
    \/ Unmount
    \/ Mount("dashboard")

SpecAlarm == InitAlarm /\ [][NextAlarm]_vars

----------------------------------------------------------------------------
(* Partial telemetry: every status response is any payload with its flame,   *)
(* gas and distance fields present, left out or null (the state field is     *)
(* left out throughout), and seen.raw keeps the payload processed last.      *)

PartialPayloads == {raw \in Payloads : raw.state = "absent"}

InitPartial ==
    /\ rover = Parsed(EmptyPayload)
    /\ env = QuietBrowser
    /\ permission = "granted"
    /\ \E p \in Pages : InitOn(p)
    /\ seen = NoSeen
    /\ flight = NoFlight
    /\ camera = NoCamera
    /\ episode = EpisodeInit(FALSE, rover)

PartialGabPoll ==
    /\ \E raw \in PartialPayloads :
          /\ GabPoll(Parsed(raw))
          /\ seen' = [seen EXCEPT !.raw = raw]
    /\ UNCHANGED <<episode, flight>>

PartialPagePoll ==
    /\ \E raw \in PartialPayloads :
          /\ PagePoll(Parsed(raw), FALSE,
                      IF page = "analytics" THEN DistanceOf(raw) ELSE NoDist)
          /\ seen' = [seen EXCEPT !.raw = raw]
    /\ UNCHANGED episode

NextPartial ==
    \/ GabTick
    \/ PartialGabPoll
    \/ GabPollFail
    \/ HandleOff
    \/ PageTick
    \/ PartialPagePoll
    \/ PagePollFail

SpecPartial == InitPartial /\ [][NextPartial]_vars

----------------------------------------------------------------------------
(* Overlapping polls: the status fetches of GlobalAlertBar in flight are     *)
(* told apart.  The rover answers each with the telemetry of that moment,    *)
(* the answers travel at their own speed, and the promise of any answered    *)
(* fetch may resolve next.  rover is the telemetry processed last.           *)

InitOverlap ==
    /\ rover = Parsed(EmptyPayload)
    /\ env = QuietBrowser
    /\ permission = "granted"
    /\ InitOn("dashboard")
    /\ seen = NoSeen
    /\ flight = [on |-> TRUE, gab |-> <<Unanswered>>]
    /\ camera = NoCamera
    /\ episode = EpisodeInit(FALSE, rover)

\* The rover answers the i-th fetch in flight
RoverAnswers(i) ==
    /\ ~flight.gab[i].answered
    /\ \E data \in EpisodeSnapshots :
          flight' = [flight EXCEPT !.gab[i] = [answered |-> TRUE, data |-> data]]
    /\ act' = "answer"
    /\ fx' = {}
    /\ NoCalls
    /\ UNCHANGED <<rover, page, mounted, gab, gabPending, trackers, pagePending,
                   prev, seen, episode, camera>>

\* The promise of the i-th fetch in flight resolves and its callback runs
OverlapGabPoll(i) ==
    /\ flight.gab[i].answered
    /\ GabPoll(flight.gab[i].data)
    /\ flight' = FlightAfterSettle(i)
    /\ UNCHANGED <<seen, episode>>

NextOverlap ==
    \/ GabTick
    \/ \E i \in FlightSlots : RoverAnswers(i)
    \/ \E i \in FlightSlots : OverlapGabPoll(i)
    \/ GabPollFail
    \/ HandleOff

SpecOverlap == InitOverlap /\ [][NextOverlap]_vars

----------------------------------------------------------------------------
(* A camera session: Manual or Patrol is mounted, left and mounted again,    *)
(* while captures and recognitions settle on their own time, succeeding or   *)
(* failing, or never.  The pollers of the page are not followed here.        *)

InitCamera ==
    /\ rover = Parsed(EmptyPayload)
    /\ env = QuietBrowser
    /\ permission = "granted"
    /\ \E p \in CameraPages : InitOn(p) /\ camera = CameraMounted(p, NoCamera)
    /\ seen = NoSeen
    /\ flight = NoFlight
    /\ episode = EpisodeInit(FALSE, rover)

NextCamera ==
    \/ \E cancelled \in BOOLEAN, outcome \in CaptureOutcomes : LoopCapture(cancelled, outcome)
    \/ \E cancelled \in BOOLEAN : LoopDelay(cancelled)
    \/ FetchFrame
    \/ \E cancelled \in BOOLEAN, outcome \in CaptureOutcomes : FetchFrameSettled(cancelled, outcome)
    \/ \E old \in BOOLEAN, outcome \in CaptureOutcomes : RecognitionSettled(old, outcome)
    \/ Unmount
    \/ \E p \in CameraPages : Mount(p)

SpecCamera == InitCamera /\ [][NextCamera]_vars

\* A capture that a cancelled loop waits for settles, and timers fire
SpecCameraFair ==
    /\ SpecCamera
    /\ WF_vars(\E outcome \in CaptureOutcomes : LoopCapture(TRUE, outcome))
    /\ WF_vars(LoopDelay(TRUE))

----------------------------------------------------------------------------
(* A scripted scenario: each poller of a freshly mounted page is fed a       *)
(* response with gas 1000 and no flame, then the response                    *)
(* {flame:false, gas:1600, distance:40, state:"MOVING"}.  seen.gab and       *)
(* seen.page record whether each processed response dispatched for gas.      *)

ScenarioBefore(raw) == raw.gas = RawNumber("num", 1000) /\ raw.flame # "true"

ScenarioSnapshot ==
    [flame |-> "false", gas |-> RawNumber("num", 1600), state |-> "MOVING",
     distance |-> RawNumber("num", 40)]

ScenarioFeed == <<{raw \in Payloads : ScenarioBefore(raw)}, {ScenarioSnapshot}>>

InitScenario ==
    /\ rover = Parsed(EmptyPayload)
    /\ env = QuietBrowser
    /\ permission = "granted"
    /\ \E p \in Pages : InitOn(p)
    /\ seen = NoSeen
    /\ flight = NoFlight
    /\ camera = NoCamera
    /\ episode = EpisodeInit(FALSE, rover)

ScenarioGabPoll ==
    /\ Len(seen.gab) < Len(ScenarioFeed)
    /\ \E raw \in ScenarioFeed[Len(seen.gab) + 1] :
          /\ GabPoll(Parsed(raw))
          /\ seen' = [seen EXCEPT !.gab = Append(@, Posted(fx', "notify", "gas")),
                                  !.raw = raw]
    /\ UNCHANGED <<episode, flight>>

ScenarioPagePoll ==
    /\ Len(seen.page) < Len(ScenarioFeed)
    /\ \E raw \in ScenarioFeed[Len(seen.page) + 1] :
          /\ PagePoll(Parsed(raw), FALSE,
                      IF page = "analytics" THEN DistanceOf(raw) ELSE NoDist)
          /\ seen' = [seen EXCEPT !.page = Append(@, Posted(fx', "alert", "gas")),
                                  !.raw = raw]
    /\ UNCHANGED episode

NextScenario ==
    \/ GabTick
    \/ ScenarioGabPoll
    \/ GabPollFail
    \/ PageTick
    \/ ScenarioPagePoll
    \/ PagePollFail

SpecScenario == InitScenario /\ [][NextScenario]_vars

----------------------------------------------------------------------------
(* Vocabulary of the properties *)


\* "present and strictly greater than the threshold", stated on the reading
AboveThreshold(data) == data.gas \in GasVals \ {NoGas} /\ data.gas - GAS_THRESHOLD >= 1

----------------------------------------------------------------------------
(* C1: on every successfully processed status poll, the dispatch of a channel *)
(* (GlobalAlertBar: the system notification for the hazard; Analytics: the    *)
(* log POST and the alert POST of fire, and of gas) is invoked exactly when   *)
(* the channel is active in this poll and was inactive in the previously      *)
(* processed one, and never when it was already active.                       *)
C1_DispatchExactlyOnRisingEdge ==
    [][ /\ act' = "gabPoll" =>
            (Notified(fx') <=> (HazardActive(rover') /\ ~prev.hazard))
        /\ (act' = "pagePoll" /\ page = "analytics") =>
            /\ (Posted(fx', "log", "fire") /\ Posted(fx', "alert", "fire"))
                  <=> (Fire(rover') /\ ~prev.fire)
            /\ (Posted(fx', "log", "fire") \/ Posted(fx', "alert", "fire"))
                  => (Fire(rover') /\ ~prev.fire)
            /\ (Posted(fx', "log", "gas") /\ Posted(fx', "alert", "gas"))
                  <=> (AboveThreshold(rover') /\ ~prev.gas)
            /\ (Posted(fx', "log", "gas") \/ Posted(fx', "alert", "gas"))
                  => (AboveThreshold(rover') /\ ~prev.gas)
      ]_vars

----------------------------------------------------------------------------
(* C2: from the initial tracker state, the activity sequence                  *)
(* [F,F,T,T,T,F,T] fed one value per successfully processed poll gives the    *)
(* rising-edge decisions [false,false,true,false,false,false,true]: the       *)
(* decisions taken so far are always the matching prefix, for the hazard      *)
(* tracker of GlobalAlertBar and for a channel tracker of a page poller.      *)
ExpectedEdges == <<FALSE, FALSE, TRUE, FALSE, FALSE, FALSE, TRUE>>

C2_ScriptedEdges ==
    /\ seen.gab = SubSeq(ExpectedEdges, 1, Len(seen.gab))
    /\ seen.page = SubSeq(ExpectedEdges, 1, Len(seen.page))

C2_Witness ==
    /\ page = "analytics"
    /\ seen.ch = "fire"
    /\ Len(seen.gab) = Len(ActivitySeq)
    /\ Len(seen.page) = Len(ActivitySeq)
    /\ Cardinality({i \in 1..Len(seen.gab) : seen.gab[i]}) = 2
    /\ Cardinality({i \in 1..Len(seen.page) : seen.page[i]}) = 2

----------------------------------------------------------------------------
(* C3: within a mounted GlobalAlertBar, once visible is true it stays true    *)
(* through polls that report no hazard, polls that report one and failed      *)
(* polls; the only operation that takes visible from true to false is         *)
(* handleOff (a page navigation replaces the component by a fresh one).       *)
C3_VisibleUntilAcknowledged ==
    [][ (visible /\ ~visible') => (act' = "handleOff" \/ act' = "mount") ]_vars

C3_Witness ==
    /\ act = "gabPoll"
    /\ visible
    /\ ~HazardActive(rover)
    /\ ~lastHazardRef

----------------------------------------------------------------------------
(* C4: after the operator has acknowledged an alert, a later rising edge of   *)
(* the hazard (inactive at the previously processed poll, active at this      *)
(* one) makes the session of the mounted GlobalAlertBar visible again and     *)
(* dispatches the notification again.                                         *)
C4_RearmAfterAcknowledge ==
    [][ (/\ act' = "gabPoll"
         /\ mounted
         /\ prev.acked
         /\ ~prev.hazard
         /\ HazardActive(rover'))
        => (visible' /\ ~acknowledgedRef' /\ Notified(fx')) ]_vars

----------------------------------------------------------------------------
(* C5: while the session is Armed (visible, not acknowledged), a processed    *)
(* poll whose hazard is of another type leaves the alert payload (type,       *)
(* message, rover state) as it was.                                           *)
C5_FirstHazardWins ==
    [][ (/\ act' = "gabPoll"
         /\ mounted
         /\ visible /\ ~acknowledgedRef /\ alert # Null
         /\ HazardActive(rover')
         /\ HazardType(rover') # alert.type)
        => alert' = alert ]_vars

----------------------------------------------------------------------------
(* C6: every fire or gas episode of the telemetry that the dashboard has      *)
(* polled results in exactly one log-record POST and exactly one POST to      *)
(* /alert/{type} for that channel: never more than one while the episode      *)
(* lasts, and exactly one of each once it is over, whatever polls, failed     *)
(* polls, acknowledgements and page navigations take place.                   *)
C6_OncePerEpisode ==
    \A ch \in Channels :
        /\ episode.of[ch].log <= 1
        /\ episode.of[ch].alert <= 1
        /\ (episode.of[ch].seen /\ ~episode.of[ch].open /\ episode.of[ch].polled)
              => (episode.of[ch].log = 1 /\ episode.of[ch].alert = 1)

----------------------------------------------------------------------------
(* C7: a processed snapshot with flame true gives the verdict Fire whatever   *)
(* its gas value is (absent, below, equal to or above the threshold): what    *)
(* GlobalAlertBar dispatches is of type fire, and the alert it shows (when    *)
(* mounted and not acknowledged) is the fire alert.                           *)
C7_FlameIsFire ==
    (act = "gabPoll" /\ rover.flame = TRUE) =>
        /\ \A f \in fx : f.ch = "fire"
        /\ (mounted /\ ~acknowledgedRef) =>
              /\ visible
              /\ alert.type = "fire"
              /\ alert.message.text = "Fire detected by flame sensor"

C7_Witness ==
    /\ act = "gabPoll"
    /\ rover.flame = TRUE
    /\ rover.gas > GAS_THRESHOLD
    /\ alert.type = "fire"
    /\ Notified(fx)

----------------------------------------------------------------------------
(* C8: for a processed snapshot with flame false the verdict is Gas exactly   *)
(* when the gas reading is present and strictly greater than GAS_THRESHOLD.   *)
(* Above the threshold GlobalAlertBar shows the gas alert with the reading    *)
(* (when mounted and not acknowledged) and dispatches nothing but gas; at or  *)
(* below it, or with no reading, the poll arms nothing, dispatches nothing    *)
(* and leaves the hazard tracker false.  The gas tracker of the page pollers  *)
(* posts for gas only above the threshold and ends at that same truth value.  *)
C8_GasStrictlyAboveThreshold ==
    [][ /\ (act' = "gabPoll" /\ rover'.flame = FALSE) =>
            IF AboveThreshold(rover')
            THEN /\ \A f \in fx' : f.ch = "gas"
                 /\ (mounted /\ ~acknowledgedRef) =>
                       /\ visible'
                       /\ alert'.type = "gas"
                       /\ alert'.message.reading = rover'.gas
            ELSE /\ UNCHANGED <<alert, visible>>
                 /\ fx' = {}
                 /\ ~lastHazardRef'
        /\ (act' = "pagePoll" /\ rover'.flame = FALSE /\ (mounted \/ page = "analytics")) =>
            /\ (\E f \in fx' : f.ch = "gas") => AboveThreshold(rover')
            /\ lastGasHighRef' = AboveThreshold(rover')
      ]_vars

C8_Witness ==
    /\ act = "gabPoll"
    /\ rover.flame = FALSE
    /\ rover.gas = GAS_THRESHOLD
    /\ alert = Null
    /\ ~visible
    /\ fx = {}

----------------------------------------------------------------------------
(* C9: a processed snapshot with flame true and gas above the threshold,      *)
(* while both channels were inactive at the previously processed poll,        *)
(* raises exactly one alert, of type Fire: GlobalAlertBar shows the fire      *)
(* alert and notifies once for fire, and no gas alert of any kind (visual     *)
(* alert, notification, log record, /alert/gas) is raised by that poll.       *)
C9_OnlyFireWhenBoth ==
    [][ (rover'.flame = TRUE /\ AboveThreshold(rover')) =>
        /\ (act' = "gabPoll" /\ mounted /\ ~prev.hazard) =>
              /\ visible'
              /\ alert'.type = "fire"
              /\ fx' = {Fx("notify", "fire", NoGas)}
        /\ (act' = "pagePoll" /\ ~prev.fire /\ ~prev.gas) =>
              \A f \in fx' : f.ch # "gas"
      ]_vars

----------------------------------------------------------------------------
(* C10: a status poll that fails (the fetch or the parsing of its response    *)
(* rejects) leaves the alert session (alert, visible, acknowledged), every    *)
(* edge tracker and the mounting as they were and requests no side effect;    *)
(* the poller is not stopped by it: its next tick can be issued.              *)
C10_FailedPollChangesNothing ==
    /\ [][ (act' = "gabFail" \/ act' = "pageFail") =>
             /\ UNCHANGED <<alert, visible, acknowledgedRef, lastHazardRef>>
             /\ UNCHANGED <<lastFlameRef, lastGasHighRef, lastEdgeRef,
                            lastDistanceCriticalRef>>
             /\ UNCHANGED <<mounted, page>>
             /\ fx' = {}
       ]_vars
    /\ []((act = "gabFail" /\ mounted) => ENABLED GabTick)
    /\ []((act = "pageFail" /\ mounted) => ENABLED PageTick)

C10_Witness ==
    /\ act = "gabFail"
    /\ mounted
    /\ visible
    /\ lastHazardRef
    /\ page = "analytics"
    /\ lastFlameRef

----------------------------------------------------------------------------
(* C11: once the hosting view is unmounted, nothing of the hazard core acts   *)
(* any more until the next view mounts: a status poll issued before the       *)
(* unmount and settled after it requests no side effect (notification, log    *)
(* POST, alert POST) and changes neither an edge tracker nor the alert        *)
(* session.                                                                   *)
C11_NoSideEffectAfterUnmount ==
    [][ (~mounted /\ act' # "mount") =>
          /\ fx' = {}
          /\ UNCHANGED <<alert, visible, acknowledgedRef, lastHazardRef>>
          /\ UNCHANGED <<lastFlameRef, lastGasHighRef, lastEdgeRef,
                         lastDistanceCriticalRef>>
      ]_vars

----------------------------------------------------------------------------
(* C12: when GlobalAlertBar is unmounted while the alarm sounds, then from    *)
(* the unmount until the next view mounts the polling timer cannot fire, no   *)
(* oscillator is started and not stopped, no gain node is connected, both     *)
(* refs are cleared, and no operation starts an oscillator.                   *)
C12_TeardownReleasesAlarm ==
    /\ [](~mounted => ~ENABLED GabTick)
    /\ [](~mounted => (live = 0 /\ wired = 0 /\ ~oscillatorRef /\ ~gainRef))
    /\ [][ (~mounted /\ act' # "mount") =>
              ("osc.start" \notin calls' /\ live' = 0) ]_vars

C12_Witness ==
    /\ act = "unmount"
    /\ {"osc.stop", "osc.disconnect", "gain.disconnect"} \subseteq calls
    /\ live = 0
    /\ gabPending > 0

----------------------------------------------------------------------------
(* C13: at most one oscillator is started and not yet stopped, and at most    *)
(* one gain node is connected, in every reachable state; an operation that    *)
(* starts an oscillator while oscillatorRef is set stops and disconnects      *)
(* that one in the same operation.                                            *)
C13_AtMostOneOscillator ==
    /\ [](live <= 1 /\ wired <= 1)
    /\ [][ ("osc.start" \in calls' /\ oscillatorRef) =>
              {"osc.stop", "osc.disconnect"} \subseteq calls' ]_vars

C13_Witness ==
    /\ act = "gabPoll"
    /\ {"osc.stop", "osc.start"} \subseteq calls
    /\ live = 1
    /\ oscillatorRef

----------------------------------------------------------------------------
(* C14: while the session is armed and its alarm has been started, a          *)
(* processed poll that still reports the hazard leaves the alarm alone: it    *)
(* neither stops nor starts an oscillator, does not ask the audio context to  *)
(* suspend, and changes nothing of the audio state.                           *)
C14_AlarmContinuousWhileArmed ==
    [][ (/\ act' = "gabPoll"
         /\ mounted /\ visible /\ alert # Null /\ ~acknowledgedRef
         /\ oscillatorRef
         /\ HazardActive(rover'))
        => /\ calls' \cap {"osc.stop", "osc.start", "ctx.suspend"} = {}
           /\ UNCHANGED audio ]_vars

----------------------------------------------------------------------------
(* C15: a processed poll that reports a hazard, on a mounted GlobalAlertBar   *)
(* whose session is not acknowledged, leaves the alert visible with that      *)
(* poll's payload in every browser: Notification API missing or throwing,     *)
(* permission denied, its request dismissed or throwing, no vibration, no     *)
(* Web Audio or a suspended audio context.                                    *)
C15_VisibleWhateverElseFails ==
    [][ (/\ act' = "gabPoll"
         /\ mounted /\ ~acknowledgedRef
         /\ HazardActive(rover'))
        => (visible' /\ alert' = HazardAlert(rover')) ]_vars

C15_Witness ==
    /\ act = "gabPoll"
    /\ Notified(fx)
    /\ env.notification = "missing"
    /\ ~env.vibrate
    /\ env.audio = "missing"
    /\ calls = {"new AudioContext"}
    /\ live = 0
    /\ visible
    /\ alert = HazardAlert(rover)

----------------------------------------------------------------------------
(* C16: on a rising edge every dispatch side effect is attempted whatever     *)
(* happens to the others: where the browser supports vibration, the haptic    *)
(* pulse is requested by every dispatch of GlobalAlertBar, also when the      *)
(* Notification API is missing or its constructor throws.                     *)
C16_DispatchesIndependent ==
    [][ (act' = "gabPoll" /\ Notified(fx') /\ env.vibrate)
        => "navigator.vibrate" \in calls' ]_vars

----------------------------------------------------------------------------
(* C17: handleOff hides the session and stops the alarm in the operation      *)
(* that issues the buzzer-off request, before the request settles; the        *)
(* settling of the request, resolved or rejected, changes nothing of the      *)
(* session or of the audio state and requests nothing.                        *)
C17_AcknowledgeDoesNotWaitForBuzzer ==
    /\ [][ act' = "handleOff" =>
              /\ ~visible' /\ acknowledgedRef'
              /\ live' = 0 /\ ~oscillatorRef' /\ ~gainRef'
              /\ buzzerOff' = "pending" ]_vars
    /\ [][ act' = "buzzerSettle" =>
              /\ UNCHANGED <<alert, visible, acknowledgedRef, lastHazardRef>>
              /\ UNCHANGED audio
              /\ ~visible'
              /\ fx' = {} /\ calls' = {} ]_vars

C17_Witness ==
    /\ act = "handleOff"
    /\ "osc.stop" \in calls
    /\ buzzerOff = "pending"
    /\ ~visible
    /\ live = 0

----------------------------------------------------------------------------
(* C18: while the first alert is still showing and was never acknowledged,    *)
(* a processed poll that reports the hazard after a processed poll that       *)
(* reported none is a new rising edge and dispatches the notification again:  *)
(* the feed active, inactive, active ends with two dispatches in total.       *)
RisingEdges(n) == {i \in 1..n : ActivitySeq[i] /\ (i = 1 \/ ~ActivitySeq[i - 1])}

C18_RecurrenceNotifiesAgain ==
    /\ [][ (/\ act' = "gabPoll"
            /\ visible /\ ~acknowledgedRef
            /\ ~prev.hazard
            /\ HazardActive(rover'))
           => (Notified(fx') /\ lastHazardRef') ]_vars
    /\ [](Cardinality({i \in 1..Len(seen.gab) : seen.gab[i]})
            = Cardinality(RisingEdges(Len(seen.gab))))

C18_Witness ==
    /\ act = "gabPoll"
    /\ Len(seen.gab) = Len(ActivitySeq)
    /\ Notified(fx)
    /\ visible /\ ~acknowledgedRef
    /\ Cardinality({i \in 1..Len(seen.gab) : seen.gab[i]}) = 2

----------------------------------------------------------------------------
(* C19: after every successfully processed poll the tracker of each channel   *)
(* equals the activity of the channel in that poll, whatever the session      *)
(* state is: lastHazardRef of GlobalAlertBar for the hazard, and the flame,   *)
(* gas, edge and distance trackers of the page poller.                        *)
C19_TrackerFollowsActivity ==
    [][ /\ act' = "gabPoll" => (lastHazardRef' = HazardActive(rover'))
        /\ (act' = "pagePoll" /\ (mounted \/ page = "analytics")) =>
              /\ lastFlameRef' = Fire(rover')
              /\ lastGasHighRef' = AboveThreshold(rover')
      ]_vars

----------------------------------------------------------------------------
(* C20: fire and gas are edge-tracked independently.  When one channel turns  *)
(* active while the other has been active all along, the newly active         *)
(* channel has its rising edge and its dispatch: the notification of          *)
(* GlobalAlertBar for that channel, the POSTs of the page poller for it; and  *)
(* the tracker of a channel ends at that channel's own activity.              *)
C20_ChannelsTrackedIndependently ==
    [][ /\ (/\ act' = "gabPoll"
            /\ mounted /\ ~acknowledgedRef
            /\ lastHazardRef /\ alert.type = "gas"
            /\ Fire(rover') /\ GasHigh(rover'))
           => Posted(fx', "notify", "fire")
        /\ (act' = "pagePoll" /\ (mounted \/ page = "analytics")) =>
              /\ (Fire(rover') /\ ~prev.fire) => Posted(fx', "alert", "fire")
              /\ (GasHigh(rover') /\ ~prev.gas) => Posted(fx', "alert", "gas")
              /\ lastFlameRef' = Fire(rover')
              /\ lastGasHighRef' = GasHigh(rover')
      ]_vars

----------------------------------------------------------------------------
(* C21: after the operator has acknowledged, a processed poll that reports    *)
(* the hazard again after a processed poll that reported it (no falling       *)
(* edge in between) leaves the session invisible, dispatches no               *)
(* notification and starts no alarm.                                          *)
C21_SustainedHazardStaysAcknowledged ==
    [][ (/\ act' = "gabPoll"
         /\ acknowledgedRef /\ prev.acked
         /\ prev.hazard
         /\ HazardActive(rover'))
        => /\ ~visible'
           /\ ~Notified(fx')
           /\ "osc.start" \notin calls'
           /\ live' = 0 ]_vars

C21_Witness ==
    /\ act = "gabPoll"
    /\ mounted
    /\ acknowledgedRef /\ prev.acked
    /\ lastHazardRef /\ prev.hazard
    /\ HazardActive(rover)
    /\ env.audio = "running"
    /\ ~visible

----------------------------------------------------------------------------
(* C23 (as the code has it): the activity sequence [F,F,T,T,T,F,T] processed  *)
(* from the initial state with no acknowledgement has two rising edges, at    *)
(* polls 3 and 7; the dispatcher is invoked at exactly these two polls, twice *)
(* in total, and never on a sustained-true poll.                              *)
DispatchedAt(decisions) == {i \in 1..Len(decisions) : decisions[i]}

C23_TwicePerSequence ==
    /\ DispatchedAt(seen.gab) \subseteq {3, 7}
    /\ DispatchedAt(seen.page) \subseteq {3, 7}
    /\ Len(seen.gab) = Len(ActivitySeq) => Cardinality(DispatchedAt(seen.gab)) = 2
    /\ Len(seen.page) = Len(ActivitySeq) => Cardinality(DispatchedAt(seen.page)) = 2

C23_Witness ==
    /\ Len(seen.gab) = Len(ActivitySeq)
    /\ DispatchedAt(seen.gab) = {3, 7}
    /\ page = "analytics"
    /\ Len(seen.page) = Len(ActivitySeq)
    /\ DispatchedAt(seen.page) = {3, 7}
    /\ ~acknowledgedRef

(* C23 as stated: the dispatcher is invoked exactly once in total for the     *)
(* whole sequence.                                                            *)
C23_OncePerSequence ==
    /\ Len(seen.gab) = Len(ActivitySeq) => Cardinality(DispatchedAt(seen.gab)) = 1
    /\ Len(seen.page) = Len(ActivitySeq) => Cardinality(DispatchedAt(seen.page)) = 1

----------------------------------------------------------------------------
----------------------------------------------------------------------------
(* C27: every edge tracker is false in a freshly mounted page and changes     *)
(* only in the processing of a successful status response of its own poller:  *)
(* handleOff, failed polls, timer ticks, the rover and the unmount leave all  *)
(* of them as they were.                                                      *)
C27_TrackersWrittenByPollsOnly ==
    /\ [](act = "mount" => (/\ ~lastHazardRef /\ ~lastFlameRef /\ ~lastGasHighRef
                            /\ ~lastEdgeRef /\ ~lastDistanceCriticalRef))
    /\ [][ lastHazardRef' # lastHazardRef => act' \in {"gabPoll", "mount"} ]_vars
    /\ [][ <<lastFlameRef, lastGasHighRef, lastEdgeRef, lastDistanceCriticalRef>>'
              # <<lastFlameRef, lastGasHighRef, lastEdgeRef, lastDistanceCriticalRef>>
           => act' \in {"pagePoll", "mount"} ]_vars

C27_Witness ==
    /\ act = "handleOff"
    /\ lastHazardRef
    /\ page = "analytics"
    /\ lastFlameRef /\ lastDistanceCriticalRef

----------------------------------------------------------------------------
(* C28: in every reachable state, visible implies that the alert payload is   *)
(* present and that the session is not acknowledged.                          *)
C28_VisibleHasPayloadAndIsUnacknowledged ==
    visible => (alert # Null /\ ~acknowledgedRef)

C28_Witness ==
    /\ act = "gabPoll"
    /\ mounted
    /\ acknowledgedRef
    /\ HazardActive(rover)
    /\ alert # Null
    /\ ~visible

----------------------------------------------------------------------------
(* C22: a response whose gas field is left out or null yields no gas hazard   *)
(* and one whose flame field is left out or null yields no fire hazard, in    *)
(* GlobalAlertBar and in the page pollers: nothing is dispatched for that     *)
(* channel, its tracker ends false, and a response with neither field (the    *)
(* empty one included) is processed as "no hazard".                           *)
GasMissing(raw) == raw.gas.kind \in {"absent", "null"}

FlameMissing(raw) == raw.flame \in {"absent", "null"}

C22_MissingFieldIsNoHazard ==
    [][ /\ act' = "gabPoll" =>
              /\ GasMissing(seen'.raw) =>
                    /\ \A f \in fx' : f.ch # "gas"
                    /\ (mounted /\ visible') => (alert' = alert \/ alert'.type = "fire")
              /\ FlameMissing(seen'.raw) =>
                    /\ \A f \in fx' : f.ch # "fire"
                    /\ (mounted /\ visible') => (alert' = alert \/ alert'.type = "gas")
              /\ (GasMissing(seen'.raw) /\ FlameMissing(seen'.raw)) =>
                    /\ fx' = {}
                    /\ UNCHANGED <<alert, visible>>
                    /\ ~lastHazardRef'
        /\ (act' = "pagePoll" /\ (mounted \/ page = "analytics")) =>
              /\ GasMissing(seen'.raw) =>
                    ((\A f \in fx' : f.ch # "gas") /\ ~lastGasHighRef')
              /\ FlameMissing(seen'.raw) =>
                    ((\A f \in fx' : f.ch # "fire") /\ ~lastFlameRef')
              /\ seen'.raw.distance.kind = "absent" =>
                    ((\A f \in fx' : f.ch # "ultrasonic") /\ ~lastDistanceCriticalRef')
      ]_vars

C22_Witness ==
    /\ act = "gabPoll"
    /\ seen.raw = EmptyPayload
    /\ visible
    /\ ~lastHazardRef
    /\ fx = {}
    /\ page = "analytics"
    /\ lastGasHighRef

----------------------------------------------------------------------------
(* C24: with GAS_THRESHOLD 1500, a GlobalAlertBar that processes a response *)
(* with gas 1000 and no flame and then {flame:false, gas:1600, distance:40,   *)
(* state:"MOVING"} has one gas rising edge, at the second response: that      *)
(* response dispatches exactly one notification, for gas with the reading     *)
(* 1600, and from then on the session is Armed: visible, not acknowledged,    *)
(* type gas, reading 1600, rover state MOVING.  The page pollers fed the      *)
(* same responses dispatch for gas at the second one only; Analytics posts    *)
(* the gas log record with the reading and the gas alert, and nothing else.   *)
C24_GasScenario ==
    /\ GAS_THRESHOLD = 1500
    /\ seen.gab = SubSeq(<<FALSE, TRUE>>, 1, Len(seen.gab))
    /\ seen.page = SubSeq(<<FALSE, TRUE>>, 1, Len(seen.page))
    /\ Len(seen.gab) < Len(ScenarioFeed) => (~visible /\ alert = Null)
    /\ Len(seen.gab) = Len(ScenarioFeed) =>
          /\ visible /\ ~acknowledgedRef /\ lastHazardRef
          /\ alert = [type |-> "gas",
                      message |-> [text |-> "Gas level HIGH", reading |-> 1600],
                      state |-> "MOVING"]
          /\ act = "gabPoll" => fx = {Fx("notify", "gas", 1600)}
    /\ (Len(seen.page) = Len(ScenarioFeed) /\ act = "pagePoll" /\ page = "analytics") =>
          fx = {Fx("log", "gas", 1600), Fx("alert", "gas", NoGas),
                Fx("loadLogs", "gas", NoGas)}

C24_Witness ==
    /\ act = "gabPoll"
    /\ seen.raw = ScenarioSnapshot
    /\ seen.gab = <<FALSE, TRUE>>
    /\ page = "analytics"
    /\ seen.page = <<FALSE, TRUE>>
    /\ visible
    /\ alert.message.reading = 1600

----------------------------------------------------------------------------
(* C25: when polls overlap, the responses are processed in the order the     *)
(* polls were issued: the response processed is always that of the oldest    *)
(* fetch in flight, so a poll issued before another is applied before it.    *)
C25_AppliedInIssueOrder ==
    [][act' = "gabPoll" => flight'.gab = Tail(flight.gab)]_vars

----------------------------------------------------------------------------
(* C29: on a page with a live camera feed at most one face-recognition       *)
(* request is in flight at any time: a request is started only when          *)
(* recognitionInFlightRef is clear, and the settling of a request, success   *)
(* or failure, leaves the ref of its component clear.                        *)
C29_OneRecognitionInFlight ==
    /\ [](camera.requests + camera.oldRequests <= 1)
    /\ [][ /\ Posted(fx', "recognize", "camera") => ~camera.recognitionInFlightRef
           /\ (act' = "recognized" /\ camera'.requests < camera.requests) =>
                 ~camera'.recognitionInFlightRef
         ]_vars

----------------------------------------------------------------------------
(* C30: once Manual is unmounted its capture loop terminates.  A step of a   *)
(* cancelled loop issues no capture, applies no frame, sets no error and     *)
(* starts no recognition; it takes the loop from its pending capture out of  *)
(* the loop (success) or into the delay (failure), and from the delay out    *)
(* of the loop, so never back to a capture; and with captures settling and   *)
(* timers firing, every loop of an unmounted Manual is gone in the end.      *)
CancelledLoops(c) == c.oldCapture + c.oldDelay

C30_CancelledLoopTerminates ==
    /\ [][ /\ camera'.oldCapture > camera.oldCapture => act' = "unmount"
           /\ (act' # "unmount" /\ <<camera'.oldCapture, camera'.oldDelay>>
                                       # <<camera.oldCapture, camera.oldDelay>>) =>
                 /\ fx' = {}
                 /\ camera'.cameraFrameUrl = camera.cameraFrameUrl
                 /\ camera'.cameraError = camera.cameraError
                 /\ camera'.requests = camera.requests
                 /\ camera'.pc = camera.pc
                 /\ camera'.oldCapture <= camera.oldCapture
           /\ ~mounted' => ~camera'.cameraFrameUrl
         ]_vars
    /\ (~mounted /\ page = "manual") ~> (CancelledLoops(camera) = 0)

C30_Witness ==
    /\ ~mounted
    /\ page = "manual"
    /\ act = "delay"
    /\ CancelledLoops(camera) = 0
    /\ ~camera.cameraFrameUrl
    /\ camera.cameraError

====
